---- MODULE Spec2Model ----
(***************************************************************************)
(* Model of the DR1 demo data generator (backend/dr1_demo_db.py) and of    *)
(* the lux log and admin session endpoints of backend/app.py.              *)
(*                                                                         *)
(* ensure_dr1_demo_db(repo_root) is modelled phase by phase over a SQLite  *)
(* database that has a persisted image (disk) and, while a call runs, the  *)
(* connection's working image (conn) with Python's implicit transaction:   *)
(* the first INSERT/DELETE opens a transaction, commit() publishes the     *)
(* working image, close() without commit discards it.                      *)
(*                                                                         *)
(* Units.  Degrees are integers in 1e-7 degree, so rounding to six         *)
(* decimals is a real operation.  Temperature and humidity are integers    *)
(* in 1e-4 unit, so rounding to three decimals is a real operation.        *)
(* Angles are integers in 1e-3 radian.  A datetime is a record of epoch    *)
(* seconds and microseconds.                                               *)
(***************************************************************************)
EXTENDS Integers, Sequences, FiniteSets

(***************************************************************************)
(* Program constants                                                       *)
(***************************************************************************)
MinDevices == 30
MinReadingsPerDevice == 60
MinReadings == MinDevices * MinReadingsPerDevice
devices_per_area == 10
WindowHours == 12
StepMinutes == 2
RandomSeed == 6900

(* Model bounds: the instant of the first clock reading (epoch seconds,    *)
(* 2026-11-02 05:22:13 UTC, so the 12 h window crosses a date line), and   *)
(* how many rows beyond the thresholds a pre-existing database may hold,   *)
(* and how many iterations of the time loop one step of the model takes    *)
(* (a failure can strike between two such steps).                          *)
T0 == 1793596933
Slack == 1
LoopStride == 19

(* The humidity offsets of an area tried apart from a run reach this far    *)
(* on either side of zero (in 1e-4 percent).                                *)
MaxRhOffset == 450000

(* The lux log: how many rows lux_table may get, how many times the clock   *)
(* may advance, and by how many milliseconds at a time.                     *)
MaxLuxRows == 2
MaxTicks == 2
TickMs == 60000

(* How many admin logins may succeed.                                       *)
MaxTokens == 2

Roots == {"rootA", "rootB"}

(***************************************************************************)
(* AreaSeed list of _ensure_areas_seeded, (min_lon, min_lat, max_lon,      *)
(* max_lat) in 1e-7 degree.                                                *)
(***************************************************************************)
AreaRow(name, min_lon, min_lat, max_lon, max_lat) ==
    [name |-> name, min_lon |-> min_lon, min_lat |-> min_lat,
     max_lon |-> max_lon, max_lat |-> max_lat]

FixedAreaIds ==
    {"kendallEastGateway", "mainCampusCore", "stataVassarNorth",
     "sloanMediaLabAmes", "westCampusKresgeSimmons", "nwAlbanyAthletics"}

FixedAreas ==
    [a \in FixedAreaIds |->
       CASE a = "kendallEastGateway" ->
              AreaRow("Kendall Square / MIT East Gateway",
                      -710928000, 423610000, -710856000, 423662000)
         [] a = "mainCampusCore" ->
              AreaRow("Main Campus Core (Killian / Infinite Corridor)",
                      -710959000, 423566000, -710892000, 423609000)
         [] a = "stataVassarNorth" ->
              AreaRow("Stata / Vassar Street North",
                      -710938000, 423619000, -710887000, 423657000)
         [] a = "sloanMediaLabAmes" ->
              AreaRow("Sloan / Media Lab / Ames Street",
                      -710912000, 423573000, -710866000, 423614000)
         [] a = "westCampusKresgeSimmons" ->
              AreaRow("West Campus (Kresge / Simmons)",
                      -711038000, 423548000, -710957000, 423606000)
         [] OTHER ->
              AreaRow("NW Campus / Albany / Athletics corridor",
                      -711093000, 423602000, -711007000, 423673000)]

(* offsets dict of _seed_demo_rows: (temp_c_offset, rh_offset) in 1e-4.     *)
offsets ==
    [a \in FixedAreaIds |->
       CASE a = "kendallEastGateway" -> <<12000, -20000>>
         [] a = "mainCampusCore" -> <<3000, 0>>
         [] a = "stataVassarNorth" -> <<9000, -10000>>
         [] a = "sloanMediaLabAmes" -> <<6000, 8000>>
         [] a = "westCampusKresgeSimmons" -> <<-4000, 15000>>
         [] OTHER -> <<-2000, 10000>>]

(* ORDER BY area_id ASC over the ids an areas table can hold.              *)
AreaOrder ==
    <<"kendallEastGateway", "mainCampusCore", "nwAlbanyAthletics",
      "sloanMediaLabAmes", "stataVassarNorth", "westCampusKresgeSimmons">>

(***************************************************************************)
(* Arithmetic helpers                                                      *)
(***************************************************************************)
Min2(a, b) == IF a <= b THEN a ELSE b
Max2(a, b) == IF a >= b THEN a ELSE b

(* float(f"{x:.6f}") on 1e-7 degree, float(f"{x:.3f}") on 1e-4 unit: the    *)
(* nearest multiple of ten.                                                *)
RoundTen(x) == ((x + 5) \div 10) * 10

(* random.Random: a deterministic stream that is a function of the seed     *)
(* alone.  The generator is its seed and the number of draws made so far;   *)
(* the value of a draw is a fixed scramble of the two (a permutation        *)
(* polynomial modulo RngModulus, standing in for the Mersenne Twister).     *)
(* uniform(lo, hi) is lo + (hi - lo) * random() with random() in [0, 1).    *)
RngModulus == 8192
RngScramble(x) ==
    LET y == x % RngModulus
    IN  (y * (2 * y + 1) + (x \div RngModulus) * 2731) % RngModulus

(* The value of the j-th draw from now (j from 1) of generator g.           *)
RngDraw(g, j) == RngScramble(g.seed + g.n + j)

(* The generator after k more draws.                                        *)
RngAdvance(g, k) == [g EXCEPT !.n = @ + k]

NoRng == [seed |-> 0, n |-> 0]

uniform(r, lo, hi) == lo + ((hi - lo) * r) \div RngModulus

(* math.sin on 1e-3 radian, result in 1e-3 (Bhaskara's rational form on     *)
(* [0, pi], odd and periodic elsewhere); math.cos by the quarter shift.     *)
PiMilli == 3142
SinHalf(x) ==
    LET q == x * (PiMilli - x)
    IN  (16 * q) \div ((5 * PiMilli * PiMilli - 4 * q) \div 1000)
Sin(x) ==
    LET y == x % (2 * PiMilli)
    IN  IF y <= PiMilli THEN SinHalf(y) ELSE 0 - SinHalf(y - PiMilli)
Cos(x) == Sin(x + PiMilli \div 2)

(***************************************************************************)
(* _utc_sqlite_ts: strftime("%Y-%m-%d %H:%M:%S") of a UTC datetime, as the  *)
(* six printed fields.  The microseconds are not printed.                   *)
(***************************************************************************)
CivilFromDays(days) ==
    LET z == days + 719468
        era == z \div 146097
        doe == z - era * 146097
        yoe == (doe - doe \div 1460 + doe \div 36524 - doe \div 146096) \div 365
        doy == doe - (365 * yoe + yoe \div 4 - yoe \div 100)
        mp == (5 * doy + 2) \div 153
        d == doy - (153 * mp + 2) \div 5 + 1
        m == IF mp < 10 THEN mp + 3 ELSE mp - 9
        y == yoe + era * 400 + (IF m <= 2 THEN 1 ELSE 0)
    IN  <<y, m, d>>

(* strftime("%Y-%m-%d %H:%M:%S") of the UTC instant of epoch second s, as   *)
(* the six fields of the string.                                            *)
strftime(s) ==
    LET ymd == CivilFromDays(s \div 86400)
        sod == s % 86400
    IN  <<ymd[1], ymd[2], ymd[3], sod \div 3600, (sod % 3600) \div 60, sod % 60>>

RoundedSqliteTs(dt) == strftime(dt.s + (IF dt.us >= 500000 THEN 1 ELSE 0))

(* _utc_sqlite_ts: the format has no field for the microseconds, which are  *)
(* dropped.                                                                 *)
utc_sqlite_ts(dt) == strftime(dt.s)

AddSeconds(dt, n) == [s |-> dt.s + n, us |-> dt.us]

NoTime == [s |-> 0, us |-> 0]

(***************************************************************************)
(* Database images.  A table is a set of rows; areas is keyed by area_id   *)
(* (its primary key), so it is a function from the ids present to rows.    *)
(* Reading rows carry the columns the generator computes from the walk and *)
(* the signal: device_id, timestamp, lat, lon, temp_c, humidity_rh.        *)
(***************************************************************************)
EmptyAreas == [a \in {} |-> AreaRow("", 0, 0, 0, 0)]

NoFile ==
    [file |-> FALSE, tables |-> FALSE, areas |-> EmptyAreas, users |-> {},
     devices |-> {}, readings |-> {}, device_status |-> {}, surveys |-> {}]

DeviceRow(device_id, user_id, version) ==
    [device_id |-> device_id, user_id |-> user_id, status |-> "active",
     version |-> version]

ReadingRow(device_id, ts, lat, lon, temp_c, rh) ==
    [device_id |-> device_id, timestamp |-> ts, lat |-> lat, lon |-> lon,
     temp_c |-> temp_c, humidity_rh |-> rh]

(***************************************************************************)
(* _connect, _ensure_schema                                                *)
(***************************************************************************)
(* sqlite3.connect creates the database file when it is not there.         *)
connect(d) == [d EXCEPT !.file = TRUE]

(* executescript of the schema: every CREATE is IF NOT EXISTS, and the     *)
(* script runs outside any transaction, so the tables are persisted.       *)
ensure_schema(d) == [d EXCEPT !.tables = TRUE]

(***************************************************************************)
(* _ensure_areas_seeded: INSERT OR IGNORE of the six AreaSeed rows.        *)
(***************************************************************************)
InsertOrReplaceAreas(areas) ==
    [a \in (DOMAIN areas) \cup FixedAreaIds |->
       IF a \in FixedAreaIds THEN FixedAreas[a] ELSE areas[a]]

ensure_areas_seeded(areas) ==
    [a \in (DOMAIN areas) \cup FixedAreaIds |->
       IF a \in DOMAIN areas THEN areas[a] ELSE FixedAreas[a]]

(***************************************************************************)
(* The threshold test of ensure_dr1_demo_db.                               *)
(***************************************************************************)
SufficientEither(device_count, reading_count) ==
    device_count >= MinDevices \/ reading_count >= MinReadings

SufficientStrict(device_count, reading_count) ==
    device_count > MinDevices /\ reading_count > MinReadings

Sufficient(device_count, reading_count) ==
    device_count >= MinDevices /\ reading_count >= MinReadings

(***************************************************************************)
(* _reset_demo_data: the DELETE statements, in the order they are issued.  *)
(***************************************************************************)
UsersFirst == <<"users", "devices", "readings", "surveys", "device_status">>

ResetOrder == <<"device_status", "surveys", "readings", "devices", "users">>

KeepRows(rows) == rows

DeleteAll(rows) == {}

(* Foreign keys of the schema (PRAGMA foreign_keys = ON): the rows whose   *)
(* parent row is not there.  A statement that would leave such a row       *)
(* fails and changes nothing.                                              *)
Dangling(d) ==
    LET dev == {x.device_id : x \in d.devices}
        usr == {x.user_id : x \in d.users}
    IN  {r \in d.readings \cup d.device_status : r.device_id \notin dev}
          \cup {r \in d.devices \cup d.surveys : r.user_id \notin usr}

(***************************************************************************)
(* _seed_demo_rows, first half: the user, the areas read back from the     *)
(* table, and the devices.                                                 *)
(***************************************************************************)
DemoUser == [user_id |-> "u_demo_tester", role |-> "tester"]

(* INSERT OR IGNORE INTO users: user_id is the primary key.                *)
InsertUserOrIgnore(users) ==
    IF \E u \in users : u.user_id = DemoUser.user_id
    THEN users ELSE users \cup {DemoUser}

(* SELECT ... FROM areas ORDER BY area_id ASC, each row made an AreaSeed    *)
(* with the offsets of its id.                                             *)
areas_rows(areas) ==
    LET ids == SelectSeq(AreaOrder, LAMBDA a : a \in DOMAIN areas)
    IN  [k \in 1..Len(ids) |->
           [area_id |-> ids[k],
            min_lon |-> areas[ids[k]].min_lon, min_lat |-> areas[ids[k]].min_lat,
            max_lon |-> areas[ids[k]].max_lon, max_lat |-> areas[ids[k]].max_lat,
            temp_c_offset |-> offsets[ids[k]][1],
            rh_offset |-> offsets[ids[k]][2]]]

(* f"d_demo_{a.area_id}_{i:02d}": the area id and the two digits of i.      *)
DeviceId(area_id, i) == <<"d_demo", area_id, i \div 10, i % 10>>

(* device_ids: for a in areas, for i in range(devices_per_area).            *)
build_device_ids(areas) ==
    LET rows == areas_rows(areas)
    IN  [n \in 1..(Len(rows) * devices_per_area) |->
           LET a == rows[((n - 1) \div devices_per_area) + 1]
               i == (n - 1) % devices_per_area
           IN  [device_id |-> DeviceId(a.area_id, i), area |-> a]]

(* The device rows the first n INSERTs of the device loop put in.           *)
SeededDevices(devs, n) ==
    {DeviceRow(devs[k].device_id, DemoUser.user_id, "1") : k \in 1..n}

(***************************************************************************)
(* _seed_demo_rows, second half: the time grid, the walk and the signal.   *)
(***************************************************************************)
StepSeconds == StepMinutes * 60
WindowSeconds == WindowHours * 3600

PointsNoBoundary == WindowSeconds \div StepSeconds

(* points = int((now - start) / step) + 1 *)
Points == WindowSeconds \div StepSeconds + 1

(* min(max(x, lo), hi) *)
Clamp(x, lo, hi) == Min2(Max2(x, lo), hi)

(* pos: the initial positions, two draws per device, in device order: the  *)
(* device d_i (from 0) takes draws 2 d_i + 1 and 2 d_i + 2.                 *)
init_positions(devs, g) ==
    [k \in 1..Len(devs) |->
       <<uniform(RngDraw(g, 2 * k - 1), devs[k].area.min_lat, devs[k].area.max_lat),
         uniform(RngDraw(g, 2 * k), devs[k].area.min_lon, devs[k].area.max_lon)>>]

(* One time step of the walk: every device moves by a bounded random        *)
(* delta (0.00010 in lat, 0.00014 in lon) and is clamped to its bbox.       *)
walk_step(devs, pos, g) ==
    [k \in 1..Len(devs) |->
       <<Clamp(pos[k][1] + uniform(RngDraw(g, 2 * k - 1), -1000, 1000),
               devs[k].area.min_lat, devs[k].area.max_lat),
         Clamp(pos[k][2] + uniform(RngDraw(g, 2 * k), -1400, 1400),
               devs[k].area.min_lon, devs[k].area.max_lon)>>]

(* phase = (idx / max(points - 1, 1)) * 2 * pi;                             *)
(* device_phase = phase + (d_i % 9) * 0.15                                  *)
device_phase(idx, d_i) ==
    (idx * 2 * PiMilli) \div Max2(Points - 1, 1) + (d_i % 9) * 150

(* temp_c = 26.5 + offset + 1.8 sin(p) + 0.4 sin(0.4 p), in 1e-4            *)
temp_c(a, p) == 265000 + a.temp_c_offset + 18 * Sin(p) + 4 * Sin((p * 4) \div 10)

HumidityUnclamped(a, p) ==
    540000 + a.rh_offset + 70 * Cos(p) + 20 * Sin((p * 3) \div 10)

(* rh = 54.0 + offset + 7 cos(p) + 2 sin(0.3 p), clamped to [20, 95]        *)
humidity_rh(a, p) ==
    Min2(Max2(540000 + a.rh_offset + 70 * Cos(p) + 20 * Sin((p * 3) \div 10),
              200000), 950000)

(* The row INSERTed for device d_i (from 0) at time index idx, ts being     *)
(* _utc_sqlite_ts(start + idx * step).                                      *)
reading(devs, pos, ts, idx, d_i) ==
    ReadingRow(devs[d_i + 1].device_id, ts,
               RoundTen(pos[d_i + 1][1]), RoundTen(pos[d_i + 1][2]),
               RoundTen(temp_c(devs[d_i + 1].area, device_phase(idx, d_i))),
               RoundTen(humidity_rh(devs[d_i + 1].area, device_phase(idx, d_i))))

(* The rows INSERTed in the time step idx, given the positions after the    *)
(* walk step: one per device, in device order.                              *)
step_readings(devs, pos, start, idx) ==
    {reading(devs, pos, ts, idx, d_i) :
       ts \in {utc_sqlite_ts(AddSeconds(start, idx * StepSeconds))},
       d_i \in 0..(Len(devs) - 1)}

(***************************************************************************)
(* The databases a call can find.  A pre-existing database holds rows not  *)
(* written by the generator: devices of another user with their readings,  *)
(* and possibly an areas row with one of the six ids but its own name and  *)
(* bounding box.                                                           *)
(***************************************************************************)
OldDeviceId(k) == <<"d_old", "none", k \div 10, k % 10>>

OldUser == [user_id |-> "u_old", role |-> "tester"]

OldDevices(n) == {DeviceRow(OldDeviceId(k), OldUser.user_id, "0") : k \in 1..n}

OldReadings(nd, n) ==
    {ReadingRow(OldDeviceId((k % nd) + 1),
                utc_sqlite_ts([s |-> T0 - 30 * 86400 + 60 * k, us |-> 0]),
                423600000, -710900000, 250000, 500000) : k \in 0..(n - 1)}

CustomAreas ==
    [a \in {"mainCampusCore"} |->
       AreaRow("Old campus core", -710950004, 423570004, -710949000, 423571000)]

PreDatabase(areas, nd, nr) ==
    [file |-> TRUE, tables |-> TRUE, areas |-> areas,
     users |-> IF nd = 0 THEN {} ELSE {OldUser},
     devices |-> OldDevices(nd),
     readings |-> IF nd = 0 THEN {} ELSE OldReadings(nd, nr),
     device_status |-> {[device_id |-> OldDeviceId(k)] : k \in 1..Min2(nd, 2)},
     surveys |-> IF nd = 0 THEN {} ELSE {[user_id |-> OldUser.user_id]}]

(* Databases that pass the threshold test, and databases that do not.       *)
SufficientDatabases ==
    {PreDatabase(ar, c[1], c[2]) :
       ar \in {EmptyAreas, FixedAreas, CustomAreas},
       c \in {<<MinDevices, MinReadings>>,
              <<MinDevices + Slack, MinReadings + Slack>>}}

InsufficientDatabases ==
    {NoFile,
     PreDatabase(FixedAreas, MinDevices - 1, MinReadings + Slack),
     PreDatabase(CustomAreas, MinDevices, MinReadings - 1)}

InitialDatabases == SufficientDatabases \cup InsufficientDatabases

(* The instants datetime.now can return.                                    *)
Nows == {[s |-> T0, us |-> 750000], [s |-> T0 + 1, us |-> 0]}

(***************************************************************************)
(* State                                                                   *)
(***************************************************************************)
VARIABLES
    dir,            \* dir[r]: repo_root/database exists
    schemaFile,     \* schemaFile[r]: database/dr1_schema.sql exists
    disk,           \* disk[r]: the persisted image of database/dr1_demo.db
    pc,             \* where the running call of ensure_dr1_demo_db is
    root,           \* repo_root of the running (or last) call
    conn,           \* the connection's working image
    intx,           \* the connection has an open transaction
    device_count,   \* local of ensure_dr1_demo_db
    reading_count,  \* local of ensure_dr1_demo_db
    step,           \* the next statement of _reset_demo_data
    device_ids,     \* local of _seed_demo_rows: <<(device_id, area), ...>>
    rng,            \* state of the random.Random of _seed_demo_rows
    now,            \* local of _seed_demo_rows
    pos,            \* local of _seed_demo_rows: <<(lat, lon), ...>> by device
    idx,            \* local of _seed_demo_rows: the time index of the loop
    outcome,        \* how the last call ended
    probe,          \* a humidity value computed apart from a run, or NoProbe
    lux_db,         \* lux_log.db: the file, lux_table and its rows
    clock,          \* time.time_ns() // 1_000_000 at the last request, less its first value
    request,        \* the last HTTP request
    statements,     \* the SQL statements the last request executed
    response,       \* the response to the last request
    admin_sessions, \* _admin_sessions
    issued,         \* history: the tokens a successful login has issued
    logged_out      \* history: the cookie values a logout has been given

(* What is not state of ensure_dr1_demo_db, and its values at rest.         *)
NoProbe == [rh_offset |-> 0, idx |-> 0, d_i |-> 0, humidity_rh |-> 0]

(* lux_log.db before anything opened it.  The rows of lux_table are kept    *)
(* in the order of their INSERT: the table has no key, and equal rows       *)
(* are rows.                                                                *)
NoLuxDb == [file |-> FALSE, table |-> FALSE, rows |-> <<>>]

NoRequest == [endpoint |-> "none"]
NoResponse == [text |-> "none", rows |-> <<>>]

luxVars == <<lux_db, clock>>
httpVars == <<request, statements, response>>
adminVars == <<admin_sessions, issued, logged_out>>
appVars == <<probe, luxVars, httpVars, adminVars>>

AppAtRest ==
    /\ probe = NoProbe
    /\ lux_db = NoLuxDb
    /\ clock = 0
    /\ request = NoRequest
    /\ statements = <<>>
    /\ response = NoResponse
    /\ admin_sessions = {}
    /\ issued = {}
    /\ logged_out = {}

genVars == <<dir, schemaFile, disk, pc, root, conn, intx, device_count,
             reading_count, step, device_ids, rng, now, pos, idx, outcome>>

vars == <<genVars, appVars>>

fsVars == <<dir, schemaFile, disk>>
localVars == <<device_count, reading_count, step, device_ids, rng, now, pos, idx>>

(* No call is running.                                                      *)
Idle ==
    /\ pc = "idle"
    /\ root = "rootA"
    /\ conn = NoFile
    /\ intx = FALSE
    /\ device_count = 0
    /\ reading_count = 0
    /\ step = 1
    /\ device_ids = <<>>
    /\ rng = NoRng
    /\ now = NoTime
    /\ pos = <<>>
    /\ idx = 0
    /\ outcome = "none"

(* One repository with any of the initial databases, with or without its   *)
(* schema file; the other repository has no schema file.                    *)
Init ==
    /\ \E d \in InitialDatabases, sa \in BOOLEAN :
          /\ disk = [r \in Roots |-> IF r = "rootA" THEN d ELSE NoFile]
          /\ schemaFile = [r \in Roots |-> r = "rootA" /\ sa]
          /\ dir = [r \in Roots |-> r = "rootA" => (sa \/ d.file)]
    /\ Idle
    /\ AppAtRest


(***************************************************************************)
(* ensure_dr1_demo_db                                                      *)
(***************************************************************************)
AlwaysExists(r) == TRUE

(* schema_path.exists() *)
schema_path_exists(r) == schemaFile[r]

(* db_dir.mkdir(parents=True, exist_ok=True); the schema file is not       *)
(* there: raise FileNotFoundError.                                         *)
SchemaNotFound(r) ==
    /\ pc = "idle"
    /\ ~schema_path_exists(r)
    /\ dir' = [dir EXCEPT ![r] = TRUE]
    /\ root' = r
    /\ outcome' = "FileNotFoundError"
    /\ UNCHANGED appVars
    /\ UNCHANGED <<schemaFile, disk, pc, conn, intx, localVars>>

(* db_dir.mkdir(...); conn = _connect(db_path) *)
Connect(r) ==
    /\ pc = "idle"
    /\ schema_path_exists(r)
    /\ dir' = [dir EXCEPT ![r] = TRUE]
    /\ root' = r
    /\ disk' = [disk EXCEPT ![r] = connect(disk[r])]
    /\ conn' = connect(disk[r])
    /\ intx' = FALSE
    /\ outcome' = "running"
    /\ pc' = "schema"
    /\ UNCHANGED appVars
    /\ UNCHANGED <<schemaFile, localVars>>

(* _ensure_schema(conn, schema_path): read_text raises when the file is    *)
(* not there; executescript persists the tables.                           *)
EnsureSchema ==
    /\ pc = "schema"
    /\ IF schemaFile[root]
       THEN /\ disk' = [disk EXCEPT ![root] = ensure_schema(disk[root])]
            /\ conn' = ensure_schema(conn)
            /\ pc' = "areas"
       ELSE /\ pc' = "raise"
            /\ UNCHANGED <<disk, conn>>
    /\ UNCHANGED appVars
    /\ UNCHANGED <<dir, schemaFile, root, intx, localVars, outcome>>

(* _ensure_areas_seeded(conn): the INSERT opens the transaction.            *)
EnsureAreasSeeded ==
    /\ pc = "areas"
    /\ conn' = [conn EXCEPT !.areas = ensure_areas_seeded(conn.areas)]
    /\ intx' = TRUE
    /\ pc' = "count"
    /\ UNCHANGED appVars
    /\ UNCHANGED <<fsVars, root, localVars, outcome>>

(* device_count, reading_count: the two row counts; the threshold test.     *)
CountRows ==
    /\ pc = "count"
    /\ device_count' = Cardinality(conn.devices)
    /\ reading_count' = Cardinality(conn.readings)
    /\ pc' = IF Sufficient(device_count', reading_count') THEN "return" ELSE "reset"
    /\ step' = 1
    /\ UNCHANGED appVars
    /\ UNCHANGED <<fsVars, root, conn, intx, device_ids, rng, now, pos, idx, outcome>>

(* _reset_demo_data(conn): one DELETE per step, in ResetOrder.              *)
Delete ==
    /\ pc = "reset"
    /\ LET t == ResetOrder[step]
           after == [conn EXCEPT ![t] = DeleteAll(conn[t])]
       IN  IF Dangling(after) # {}
           THEN /\ pc' = "raise"
                /\ UNCHANGED <<conn, step>>
           ELSE /\ conn' = after
                /\ step' = step + 1
                /\ pc' = IF step = Len(ResetOrder) THEN "seed_devices" ELSE "reset"
    /\ intx' = TRUE
    /\ UNCHANGED appVars
    /\ UNCHANGED <<fsVars, root, device_count, reading_count, device_ids, rng, now,
                   pos, idx, outcome>>

SeedFromEntropy(entropy) == [seed |-> entropy, n |-> 0]

(* rng = random.Random(6900): the seed is the literal, whatever the         *)
(* entropy of the moment.                                                   *)
random_Random(entropy) == [seed |-> RandomSeed, n |-> 0]

(* _seed_demo_rows, to the end of the device loop.  The loop stops with an  *)
(* error after n INSERTs when n is less than the number of devices; an      *)
(* INSERT of a device_id that is already there fails; no areas row is a     *)
(* RuntimeError.                                                            *)
SeedDevices(n, entropy) ==
    /\ pc = "seed_devices"
    /\ LET users == InsertUserOrIgnore(conn.users)
           devs == build_device_ids(conn.areas)
           rows == SeededDevices(devs, n)
           dup == \E x \in conn.devices, y \in rows : x.device_id = y.device_id
       IN  /\ n <= Len(devs)
           /\ device_ids' = devs
           /\ IF Len(devs) = 0 \/ dup
              THEN /\ conn' = [conn EXCEPT !.users = users]
                   /\ pc' = "raise"
              ELSE /\ conn' = [conn EXCEPT !.users = users,
                                           !.devices = conn.devices \cup rows]
                   /\ pc' = IF n = Len(devs) THEN "seed_readings" ELSE "raise"
    /\ rng' = random_Random(entropy)
    /\ intx' = TRUE
    /\ UNCHANGED appVars
    /\ UNCHANGED <<fsVars, root, device_count, reading_count, step, now, pos, idx,
                   outcome>>

(* _seed_demo_rows: now = datetime.now(tz=UTC), the time grid, and the       *)
(* initial positions.                                                       *)
InitPositions(t) ==
    /\ pc = "seed_readings"
    /\ now' = t
    /\ pos' = init_positions(device_ids, rng)
    /\ rng' = RngAdvance(rng, 2 * Len(device_ids))
    /\ idx' = 0
    /\ pc' = IF Points > 0 THEN "time_loop" ELSE "commit"
    /\ UNCHANGED appVars
    /\ UNCHANGED <<fsVars, root, conn, intx, device_count, reading_count, step,
                   device_ids, outcome>>

(* for idx in range(points): the walk step of every device and the INSERT  *)
(* of its reading, for the n iterations from idx on.  The value is the one  *)
(* state of the loop after them: positions, generator and the rows          *)
(* inserted.                                                                *)
RECURSIVE time_loop(_, _, _, _, _, _)
time_loop(devs, p, g, start, i, n) ==
    IF n = 0
      THEN {[pos |-> p, rng |-> g, rows |-> {}]}
      ELSE UNION {{[r EXCEPT !.rows = @ \cup step_readings(devs, q, start, i)] :
                     r \in time_loop(devs, q, RngAdvance(g, 2 * Len(devs)),
                                     start, i + 1, n - 1)} :
                  q \in {x \in {walk_step(devs, p, g)} : x = x}}

(* LoopStride iterations of the loop, or the ones that are left.            *)
TimeStep ==
    /\ pc = "time_loop"
    /\ \E n \in {Min2(LoopStride, Points - idx)} :
       \E r \in time_loop(device_ids, pos, rng,
                          AddSeconds(now, 0 - WindowSeconds), idx, n) :
         /\ pos' = r.pos
         /\ rng' = r.rng
         /\ conn' = [conn EXCEPT !.readings = conn.readings \cup r.rows]
         /\ idx' = idx + n
         /\ pc' = IF idx + n < Points THEN "time_loop" ELSE "commit"
    /\ UNCHANGED appVars
    /\ UNCHANGED <<fsVars, root, intx, device_count, reading_count, step,
                   device_ids, now, outcome>>

CommitNothing(d, c) == d

(* conn.commit(): the working image becomes the persisted one.              *)
commit(d, c) == c

Commit ==
    /\ pc = "commit"
    /\ disk' = [disk EXCEPT ![root] = commit(disk[root], conn)]
    /\ intx' = FALSE
    /\ pc' = "return"
    /\ UNCHANGED appVars
    /\ UNCHANGED <<dir, schemaFile, root, conn, localVars, outcome>>

CloseCommits(d, c, open) == IF open THEN c ELSE d

(* conn.close(): an open transaction is rolled back.                        *)
close(d, c, open) == d

(* finally: conn.close(), after return db_path.                             *)
Close ==
    /\ pc = "return"
    /\ disk' = [disk EXCEPT ![root] = close(disk[root], conn, intx)]
    /\ conn' = NoFile
    /\ intx' = FALSE
    /\ outcome' = "returned"
    /\ pc' = "idle"
    /\ device_count' = 0
    /\ reading_count' = 0
    /\ step' = 1
    /\ device_ids' = <<>>
    /\ rng' = NoRng
    /\ now' = NoTime
    /\ pos' = <<>>
    /\ idx' = 0
    /\ UNCHANGED appVars
    /\ UNCHANGED <<dir, schemaFile, root>>

(* Any statement can fail with a database error, or the process can die:    *)
(* the error propagates through finally: conn.close(), and a connection     *)
(* that is dropped is rolled back all the same.                             *)
Raise ==
    /\ pc \in {"schema", "areas", "count", "reset", "seed_devices",
               "seed_readings", "time_loop", "commit", "raise"}
    /\ disk' = [disk EXCEPT ![root] = close(disk[root], conn, intx)]
    /\ conn' = NoFile
    /\ intx' = FALSE
    /\ outcome' = "raised"
    /\ pc' = "idle"
    /\ device_count' = 0
    /\ reading_count' = 0
    /\ step' = 1
    /\ device_ids' = <<>>
    /\ rng' = NoRng
    /\ now' = NoTime
    /\ pos' = <<>>
    /\ idx' = 0
    /\ UNCHANGED appVars
    /\ UNCHANGED <<dir, schemaFile, root>>

(* What an unseeded generator would be seeded from.                         *)
Entropy == {RandomSeed, RandomSeed + 1}

(* Where the device loop can be cut short by an error.                      *)
DeviceCuts == {0, 1, MinDevices - 1, MinDevices}

Next ==
    \/ \E r \in Roots : SchemaNotFound(r)
    \/ \E r \in Roots : Connect(r)
    \/ EnsureSchema
    \/ EnsureAreasSeeded
    \/ CountRows
    \/ Delete
    \/ \E n \in DeviceCuts \cup {Len(build_device_ids(conn.areas))},
          e \in Entropy : SeedDevices(n, e)
    \/ \E t \in Nows : InitPositions(t)
    \/ TimeStep
    \/ Commit
    \/ Raise
    \/ Close

Spec == Init /\ [][Next]_vars

(***************************************************************************)
(* Two independent runs: two repositories, each with its schema file and   *)
(* no database, seeded one after the other, with no error.                 *)
(***************************************************************************)
InitTwin ==
    /\ disk = [r \in Roots |-> NoFile]
    /\ schemaFile = [r \in Roots |-> TRUE]
    /\ dir = [r \in Roots |-> TRUE]
    /\ Idle
    /\ AppAtRest

NextTwin ==
    \/ Connect("rootA")
    \/ (disk["rootA"].readings # {} /\ Connect("rootB"))
    \/ EnsureSchema
    \/ EnsureAreasSeeded
    \/ CountRows
    \/ Delete
    \/ \E e \in Entropy : SeedDevices(Len(build_device_ids(conn.areas)), e)
    \/ \E t \in Nows : InitPositions(t)
    \/ TimeStep
    \/ Commit
    \/ Close

SpecTwin == InitTwin /\ [][NextTwin]_vars

(***************************************************************************)
(* The humidity signal as a function of the area's offset, the time index  *)
(* and the device index: one run from an empty database, and next to it    *)
(* the value the INSERT would store for offsets the six areas do not have. *)
(***************************************************************************)
RhOffsets ==
    {offsets[a][2] : a \in FixedAreaIds}
      \cup {0 - MaxRhOffset, 0, MaxRhOffset}

ProbeIdx == {0, 90, 180, 270, Points - 1}

(* base_rh + 7 cos + 2 sin, clamped, then float(f"{rh:.3f}").               *)
ProbeHumidity(off, i, d_i) ==
    /\ pc = "idle"
    /\ outcome = "none"
    /\ probe = NoProbe
    /\ probe' = [rh_offset |-> off, idx |-> i, d_i |-> d_i,
                 humidity_rh |->
                   RoundTen(humidity_rh([temp_c_offset |-> 0, rh_offset |-> off],
                                        device_phase(i, d_i)))]
    /\ UNCHANGED <<genVars, luxVars, httpVars, adminVars>>

InitSignal ==
    /\ disk = [r \in Roots |-> NoFile]
    /\ schemaFile = [r \in Roots |-> r = "rootA"]
    /\ dir = [r \in Roots |-> TRUE]
    /\ Idle
    /\ AppAtRest

NextSignal ==
    \/ \E off \in RhOffsets, i \in ProbeIdx, d_i \in 0..8 : ProbeHumidity(off, i, d_i)
    \/ (probe = NoProbe /\ Connect("rootA"))
    \/ EnsureSchema
    \/ EnsureAreasSeeded
    \/ CountRows
    \/ Delete
    \/ \E e \in Entropy : SeedDevices(Len(build_device_ids(conn.areas)), e)
    \/ \E t \in Nows : InitPositions(t)
    \/ TimeStep
    \/ Commit
    \/ Close

SpecSignal == InitSignal /\ [][NextSignal]_vars

(***************************************************************************)
(* app.py: /lux_logger and /get_lux over lux_log.db.  A handler has no     *)
(* await, so a request runs from its first statement to its return with    *)
(* no other request in between.                                            *)
(***************************************************************************)
Kerberos == {"alice", "bob"}
LuxValues == {0, 120}
TimeMinutes == {-1, 0, 1, MaxTicks}

(* What the clock can show at the next request.                             *)
NextClock == {t \in {clock, clock + TickMs} : t <= MaxTicks * TickMs}

(* sqlite3.connect(LUX_DB): the file is created when it is not there.       *)
lux_connect(db) == [db EXCEPT !.file = TRUE]

(* CREATE TABLE IF NOT EXISTS lux_table                                     *)
create_table_if_not_exists(db) == [db EXCEPT !.table = TRUE]

(* INSERT INTO lux_table (lux, battery_voltage, kerberos, ts)               *)
insert_lux(db, row) == [db EXCEPT !.rows = Append(@, row)]

ProbeCreatesTable(db) == [db EXCEPT !.table = TRUE]

(* SELECT name FROM sqlite_master WHERE type='table' AND name='lux_table':  *)
(* the database after the statement.                                        *)
select_sqlite_master(db) == db

(* log_lux                                                                  *)
LogLux(lux, bat, k, t) ==
    /\ Len(lux_db.rows) < MaxLuxRows
    /\ clock' = t
    /\ lux_db' = insert_lux(create_table_if_not_exists(lux_connect(lux_db)),
                            [lux |-> lux, battery_voltage |-> bat,
                             kerberos |-> k, ts |-> t])
    /\ request' = [endpoint |-> "lux_logger", lux |-> lux, bat |-> bat,
                   kerberos |-> k]
    /\ statements' = <<"CREATE TABLE IF NOT EXISTS lux_table",
                       "INSERT INTO lux_table", "COMMIT">>
    /\ response' = [text |-> "logged", rows |-> <<<<t, lux, bat>>>>]
    /\ UNCHANGED <<genVars, probe, adminVars>>

(* SELECT ts, lux, battery_voltage FROM lux_table WHERE ts >= cutoff AND    *)
(* kerberos = ? ORDER BY ts DESC: the results the statement can give, rows  *)
(* of one ts coming in either order.                                        *)
select_lux(rows, cutoff, k) ==
    LET sel == {i \in DOMAIN rows : rows[i].ts >= cutoff /\ rows[i].kerberos = k}
        n == Cardinality(sel)
    IN  {[j \in 1..n |-> <<rows[q[j]].ts, rows[q[j]].lux, rows[q[j]].battery_voltage>>] :
           q \in {q \in [1..n -> sel] :
                    /\ \A i, j \in 1..n : i # j => q[i] # q[j]
                    /\ \A i, j \in 1..n : i < j => rows[q[i]].ts >= rows[q[j]].ts}}

(* get_lux                                                                  *)
GetLux(k, time_minutes, t) ==
    /\ clock' = t
    /\ request' = [endpoint |-> "get_lux", kerberos |-> k,
                   time_minutes |-> time_minutes]
    /\ LET db == select_sqlite_master(lux_connect(lux_db))
           cutoff == t - time_minutes * 60 * 1000
       IN  /\ lux_db' = db
           /\ IF ~db.table
              THEN /\ statements' = <<"SELECT FROM sqlite_master">>
                   /\ response' = [text |-> "No data found. Table does not exist yet.",
                                   rows |-> <<>>]
              ELSE /\ statements' = <<"SELECT FROM sqlite_master",
                                      "SELECT FROM lux_table">>
                   /\ \E prev_data \in select_lux(db.rows, cutoff, k) :
                        response' = [text |-> IF prev_data = <<>>
                                                THEN "No data found for kerberos"
                                                ELSE "Time, Lux, Battery Voltage",
                                     rows |-> prev_data]
    /\ UNCHANGED <<genVars, probe, adminVars>>

InitLux == InitSignal

NextLux ==
    \/ \E lux \in LuxValues, k \in Kerberos, t \in NextClock : LogLux(lux, 0, k, t)
    \/ \E k \in Kerberos, m \in TimeMinutes, t \in NextClock : GetLux(k, m, t)

SpecLux == InitLux /\ [][NextLux]_vars

(***************************************************************************)
(* app.py: the admin session set.  secrets.token_urlsafe(32) is 256 random *)
(* bits: a token is a value no login has issued before and no client       *)
(* holds before it is issued.                                              *)
(***************************************************************************)
ADMIN_PASSWORD == "monotream"
Passwords == {ADMIN_PASSWORD, "guess", ""}

TokenNames == [k \in 1..3 |-> CASE k = 1 -> "token1" [] k = 2 -> "token2" [] OTHER -> "token3"]

(* secrets.token_urlsafe(32), given the tokens drawn so far.                *)
token_urlsafe(drawn) == TokenNames[Cardinality(drawn) + 1]

(* request.cookies.get("admin_session"): None without the cookie.          *)
None == "<None>"
Cookies == {None, "", "forged"} \cup issued

(* bool(token)                                                              *)
Truthy(token) == token # None /\ token # ""

AnyCookieIsAdmin(token, sessions) == Truthy(token)

(* _is_admin                                                                *)
is_admin(token, sessions) == Truthy(token) /\ token \in sessions

(* admin_login                                                              *)
AdminLogin(password) ==
    /\ request' = [endpoint |-> "/admin/login", password |-> password]
    /\ IF password # ADMIN_PASSWORD
       THEN /\ response' = [status |-> 401, text |-> "Invalid admin password"]
            /\ UNCHANGED <<admin_sessions, issued>>
       ELSE /\ Cardinality(issued) < MaxTokens
            /\ \E token \in {token_urlsafe(issued)} :
                 /\ admin_sessions' = admin_sessions \cup {token}
                 /\ issued' = issued \cup {token}
                 /\ response' = [status |-> 200, text |-> "ok", set_cookie |-> token]
    /\ UNCHANGED <<genVars, probe, luxVars, statements, logged_out>>

(* admin_logout                                                             *)
AdminLogout(token) ==
    /\ request' = [endpoint |-> "/admin/logout", cookie |-> token]
    /\ admin_sessions' = IF Truthy(token) THEN admin_sessions \ {token}
                                          ELSE admin_sessions
    /\ logged_out' = IF Truthy(token) THEN logged_out \cup {token} ELSE logged_out
    /\ response' = [status |-> 200, text |-> "ok", delete_cookie |-> "admin_session"]
    /\ UNCHANGED <<genVars, probe, luxVars, statements, issued>>

(* admin: admin_path.exists() is exists.                                    *)
Admin(token, exists) ==
    /\ request' = [endpoint |-> "/admin", cookie |-> token]
    /\ response' = IF ~is_admin(token, admin_sessions)
                     THEN [status |-> 303, text |-> "redirect", url |-> "/"]
                   ELSE IF ~exists
                     THEN [status |-> 404, text |-> "admin.html not found"]
                   ELSE [status |-> 200, text |-> "admin.html"]
    /\ UNCHANGED <<genVars, probe, luxVars, statements, adminVars>>

InitAdmin == InitSignal

NextAdmin ==
    \/ \E password \in Passwords : AdminLogin(password)
    \/ \E token \in Cookies : AdminLogout(token)
    \/ \E token \in Cookies, exists \in BOOLEAN : Admin(token, exists)

SpecAdmin == InitAdmin /\ [][NextAdmin]_vars

(***************************************************************************)
(* Vocabulary of the properties                                            *)
(***************************************************************************)
InCall == pc # "idle"
Returning == pc = "return"

(* The two row counts of a persisted image against the two thresholds.      *)
HasEnough(d) ==
    Cardinality(d.devices) >= 30 /\ Cardinality(d.readings) >= 1800
HasTooFew(d) ==
    Cardinality(d.devices) < 30 \/ Cardinality(d.readings) < 1800

FactTables(d) == <<d.device_status, d.surveys, d.readings, d.devices, d.users>>

IsDemoId(id) == id[1] = "d_demo"
DemoDevices(d) == {x \in d.devices : IsDemoId(x.device_id)}
DemoReadings(d) == {r \in d.readings : IsDemoId(r.device_id)}

(* A complete generated dataset: ten devices for every areas row, a reading *)
(* per device and time step, one user, and nothing else.                    *)
Regenerated(d) ==
    /\ d.devices = SeededDevices(build_device_ids(d.areas),
                                 10 * Cardinality(DOMAIN d.areas))
    /\ Cardinality(d.readings) = 361 * Cardinality(d.devices)
    /\ DemoReadings(d) = d.readings
    /\ d.users = {DemoUser}
    /\ d.device_status = {}
    /\ d.surveys = {}

(***************************************************************************)
(* C1.  A call on a database that already holds at least 30 devices and at *)
(* least 1800 readings writes nothing to devices or readings, neither in   *)
(* its transaction nor on disk, however often it is repeated.              *)
(***************************************************************************)
C1_FastPathWritesNothing ==
    [][\A r \in Roots :
         HasEnough(disk[r]) =>
           /\ disk'[r].devices = disk[r].devices
           /\ disk'[r].readings = disk[r].readings
           /\ (pc' # "idle" /\ root' = r) =>
                /\ conn'.devices = disk[r].devices
                /\ conn'.readings = disk[r].readings
                /\ pc' \in {"schema", "areas", "count", "return"}]_vars

(* A call has returned on a database holding exactly the two thresholds.    *)
C1_Witness ==
    /\ pc = "idle"
    /\ outcome = "returned"
    /\ Cardinality(disk[root].devices) = 30
    /\ Cardinality(disk[root].readings) = 1800
    /\ DemoDevices(disk[root]) = {}

C4_VolumeFromEmpty ==
    (Returning /\ device_count = 0 /\ reading_count = 0) =>
      LET d == disk[root]
      IN  /\ Cardinality(d.devices) = 60
          /\ {x.device_id : x \in d.devices}
               = {<<"d_demo", a, 0, i>> : a \in FixedAreaIds, i \in 0..9}
          /\ Cardinality(d.readings) = 60 * 361
          /\ \A x \in d.devices :
               LET own == {r \in d.readings : r.device_id = x.device_id}
               IN  /\ Cardinality(own) = 361
                   /\ Cardinality({r.timestamp : r \in own}) = 361

(* A run that found no device and no reading has committed its readings.    *)
C4_Witness ==
    /\ Returning
    /\ device_count = 0
    /\ reading_count = 0
    /\ Cardinality(disk[root].readings) = 21660

(***************************************************************************)
(* C5.  Every reading the generator has inserted, at every time step and   *)
(* for every device, has its stored (rounded) lat and lon inside the       *)
(* bounding box of the area the device was created for, both bounds        *)
(* included, and so has every position the walk holds, the initial one     *)
(* included.                                                               *)
(***************************************************************************)
InBox(a, lat, lon) ==
    /\ a.min_lat <= lat
    /\ lat <= a.max_lat
    /\ a.min_lon <= lon
    /\ lon <= a.max_lon

PositionsInBox ==
    \A k \in DOMAIN pos : InBox(device_ids[k].area, pos[k][1], pos[k][2])

C5_ReadingsStayInArea ==
    /\ PositionsInBox
    /\ \A r \in DemoReadings(conn) :
         InBox(conn.areas[r.device_id[2]], r.lat, r.lon)

(* Every position of the walk is inside its area, and a committed reading   *)
(* is stored outside the area of its device.                                *)
C5_Witness ==
    /\ Returning
    /\ DOMAIN pos # {}
    /\ PositionsInBox
    /\ \E r \in DemoReadings(disk[root]) :
         ~InBox(disk[root].areas[r.device_id[2]], r.lat, r.lon)

(***************************************************************************)
(* C6.  From the first DELETE until the final commit succeeds nothing of   *)
(* the call reaches the disk, so a call that fails in between leaves the   *)
(* persisted database exactly as it was; the disk never holds a partly     *)
(* generated dataset.                                                      *)
(***************************************************************************)
C6_FailedRegenerationRollsBack ==
    [][/\ (/\ pc \in {"reset", "seed_devices", "seed_readings",
                      "time_loop", "commit", "raise"}
           /\ ~(pc = "commit" /\ pc' = "return")) =>
            disk' = disk
       /\ \A r \in Roots :
            (DemoDevices(disk'[r]) # {} \/ DemoReadings(disk'[r]) # {}) =>
              Regenerated(disk'[r])]_vars

(* The transaction holds at least 1800 generated readings, the disk none.   *)
C6_Witness ==
    /\ pc = "time_loop"
    /\ Cardinality(DemoReadings(conn)) >= 1800
    /\ Cardinality(conn.readings) < 60 * 361
    /\ DemoReadings(disk[root]) = {}
    /\ disk[root].devices # {}

(***************************************************************************)
(* C7.  Two runs from an empty database under two repository roots.        *)
(***************************************************************************)
TwinDone ==
    /\ pc = "idle"
    /\ disk["rootA"].readings # {}
    /\ disk["rootB"].readings # {}

Positions(rows) ==
    {<<r.device_id, r.lat, r.lon, r.temp_c, r.humidity_rh>> : r \in rows}
Timestamps(rows) == {r.timestamp : r \in rows}

C8_MissingSchemaTouchesNothing ==
    [][\A r \in Roots :
         ~schemaFile[r] =>
           /\ disk'[r] = disk[r]
           /\ ~(pc' # "idle" /\ root' = r)
           /\ (root' = r /\ outcome' # outcome) =>
                outcome' = "FileNotFoundError"]_vars

(* The call has failed, the directory is there, the database file is not.   *)
C8_Witness ==
    /\ pc = "idle"
    /\ outcome = "FileNotFoundError"
    /\ ~schemaFile[root]
    /\ dir[root]
    /\ ~disk[root].file

(***************************************************************************)
(* C9.  After any call that returns normally the persisted areas table     *)
(* holds a row for each of the six fixed area ids.                         *)
(***************************************************************************)
C9_ReturnLeavesAreasSeeded ==
    (pc = "idle" /\ outcome = "returned") =>
      FixedAreaIds \subseteq DOMAIN disk[root].areas

(* A call has returned normally, and a fixed area id is still absent from   *)
(* the persisted areas table.                                               *)
C9_Witness ==
    /\ pc = "idle"
    /\ outcome = "returned"
    /\ HasEnough(disk[root])
    /\ \E a \in FixedAreaIds : a \notin DOMAIN disk[root].areas

(***************************************************************************)
(* C10.  No step of a call changes or removes an areas row that exists,    *)
(* in the transaction or on disk; the reset leaves the table as it is.     *)
(***************************************************************************)
C10_ExistingAreasKept ==
    [][/\ \A r \in Roots : \A a \in DOMAIN disk[r].areas :
            /\ a \in DOMAIN disk'[r].areas
            /\ disk'[r].areas[a] = disk[r].areas[a]
       /\ (pc # "idle" /\ pc' # "idle") =>
            \A a \in DOMAIN conn.areas :
              /\ a \in DOMAIN conn'.areas
              /\ conn'.areas[a] = conn.areas[a]
       /\ (pc = "reset" /\ pc' # "idle") => conn'.areas = conn.areas]_vars

(* A regeneration has committed next to an areas row that differs from the  *)
(* fixed one of the same id.                                                *)
C10_Witness ==
    /\ Returning
    /\ reading_count < 1800
    /\ FixedAreaIds \subseteq DOMAIN disk[root].areas
    /\ disk[root].areas["mainCampusCore"] = CustomAreas["mainCampusCore"]
    /\ disk[root].areas["mainCampusCore"] # FixedAreas["mainCampusCore"]
    /\ DemoDevices(disk[root]) # {}

(***************************************************************************)
(* C11.  In a generation run started at the instant now, the readings of   *)
(* every device carry the timestamps of the grid now - 12 h, now - 12 h +  *)
(* 2 min, ..., now, each once, written as UTC date and time of day: the    *)
(* first is now - 12 h, the last is now, consecutive ones are exactly two  *)
(* minutes apart, and the written timestamps increase strictly with time.  *)
(***************************************************************************)
DaysFromCivil(y, m, d) ==
    LET yy == IF m <= 2 THEN y - 1 ELSE y
        era == yy \div 400
        yoe == yy - era * 400
        doy == (153 * (IF m > 2 THEN m - 3 ELSE m + 9) + 2) \div 5 + d - 1
        doe == yoe * 365 + yoe \div 4 - yoe \div 100 + doy
    IN  era * 146097 + doe - 719468

(* The epoch second a written timestamp reads as.                           *)
ToEpoch(ts) ==
    DaysFromCivil(ts[1], ts[2], ts[3]) * 86400 + ts[4] * 3600 + ts[5] * 60 + ts[6]

WellFormedTs(ts) ==
    /\ ts[2] \in 1..12
    /\ ts[3] \in 1..31
    /\ ts[4] \in 0..23
    /\ ts[5] \in 0..59
    /\ ts[6] \in 0..59

(* The order of the written strings: field by field, the year first.        *)
RECURSIVE TsBefore(_, _, _)
TsBefore(a, b, i) ==
    /\ i <= 6
    /\ \/ a[i] < b[i]
       \/ a[i] = b[i] /\ TsBefore(a, b, i + 1)

GenerationDone == pc \in {"commit", "return"} /\ now # NoTime

C11_TimestampGrid ==
    GenerationDone =>
      LET all == Timestamps(DemoReadings(conn))
      IN  /\ \A t \in all : WellFormedTs(t)
          /\ {ToEpoch(t) : t \in all}
               = {now.s - 12 * 3600 + 120 * i : i \in 0..360}
          /\ Cardinality(all) = 361
          /\ \A t1, t2 \in all :
               ToEpoch(t1) < ToEpoch(t2) => TsBefore(t1, t2, 1)
          /\ \A x \in DemoDevices(conn) :
               Timestamps({r \in conn.readings : r.device_id = x.device_id}) = all

(* A run started in the second half of a second has committed; its window   *)
(* begins on the day before.                                                *)
C11_Witness ==
    /\ Returning
    /\ now.us >= 500000
    /\ DemoReadings(disk[root]) # {}
    /\ \E t1, t2 \in Timestamps(DemoReadings(disk[root])) : t1[3] # t2[3]

(***************************************************************************)
(* C14.  On the regeneration path the reset empties device_status,         *)
(* surveys, readings, devices and users, one table per statement and in    *)
(* this order; no statement fails or leaves a row whose device or user is  *)
(* gone (readings and device_status are empty before devices is emptied,   *)
(* devices before users); all five tables are empty before the first       *)
(* INSERT of the regeneration, and nothing is deleted after it.            *)
(***************************************************************************)
FactTableNames == {"device_status", "surveys", "readings", "devices", "users"}

C14_ResetOrder ==
    [][/\ (pc = "reset" /\ pc' # "idle") =>
            /\ pc' # "raise"
            /\ step' = step + 1
            /\ conn'[<<"device_status", "surveys", "readings", "devices",
                       "users">>[step]] = {}
            /\ \A t \in FactTableNames : conn'[t] \in {conn[t], {}}
            /\ Cardinality({t \in FactTableNames : conn'[t] # conn[t]}) <= 1
            /\ Dangling(conn') = {}
            /\ (conn.devices # {} /\ conn'.devices = {}) =>
                 conn.readings = {} /\ conn.device_status = {}
            /\ (conn.users # {} /\ conn'.users = {}) =>
                 conn.devices = {} /\ conn.surveys = {}
            /\ (pc' = "seed_devices") <=> (step = 5)
            /\ (pc' = "seed_devices") => \A t \in FactTableNames : conn'[t] = {}
       /\ (pc \in {"seed_devices", "seed_readings", "time_loop", "commit"}
             /\ pc' # "idle") =>
            \A t \in FactTableNames : conn[t] \subseteq conn'[t]]_vars

(* Readings and device_status of an existing database are gone, its devices *)
(* and users are still there, and DELETE FROM devices is next.              *)
C14_Witness ==
    /\ pc = "reset"
    /\ step = 4
    /\ disk[root].readings # {}
    /\ disk[root].device_status # {}
    /\ conn.readings = {}
    /\ conn.device_status = {}
    /\ conn.devices # {}
    /\ conn.users # {}

(***************************************************************************)
(* C12.  Every humidity the generator stores lies between 20.0 and 95.0,   *)
(* both included: in every reading of a run, and for every area offset,    *)
(* time index and device phase tried apart from a run.                     *)
(***************************************************************************)
HumidityInRange(rh) == 200000 <= rh /\ rh <= 950000

C12_HumidityBounds ==
    /\ \A r \in DemoReadings(conn) : HumidityInRange(r.humidity_rh)
    /\ \A r \in DemoReadings(disk["rootA"]) : HumidityInRange(r.humidity_rh)
    /\ probe # NoProbe => HumidityInRange(probe.humidity_rh)

(* An offset for which the signal without the clamp would pass 95.0: the    *)
(* stored value is 95.0.                                                    *)
C12_Witness ==
    /\ probe # NoProbe
    /\ probe.rh_offset > 400000
    /\ probe.humidity_rh = 950000

(***************************************************************************)
(* C13.  A get_lux request, for any kerberos and time_minutes and whether  *)
(* or not lux_table exists, executes SELECT statements only and leaves the *)
(* existence of lux_table and its rows as they were; when the table does   *)
(* not exist it answers 'No data found. Table does not exist yet.' and     *)
(* has not queried the table.                                              *)
(***************************************************************************)
C13_GetLuxReadsOnly ==
    [][request'.endpoint = "get_lux" =>
         /\ lux_db'.table = lux_db.table
         /\ lux_db'.rows = lux_db.rows
         /\ \A i \in DOMAIN statements' :
              statements'[i] \in {"SELECT FROM sqlite_master", "SELECT FROM lux_table"}
         /\ ~lux_db.table =>
              /\ response'.text = "No data found. Table does not exist yet."
              /\ statements' = <<"SELECT FROM sqlite_master">>]_vars

(* get_lux has answered with one of the two rows of the table.              *)
C13_Witness ==
    /\ request.endpoint = "get_lux"
    /\ Len(lux_db.rows) = 2
    /\ Len(response.rows) = 1
    /\ statements = <<"SELECT FROM sqlite_master", "SELECT FROM lux_table">>

(***************************************************************************)
(* C15.  Over any interleaving of login, logout and /admin requests: the   *)
(* admin page is served only to a request whose admin_session cookie is a  *)
(* token that a login with the correct password issued and that no logout  *)
(* has been given since; a login with a wrong password is refused and adds *)
(* no token; a request to /admin with a cookie that a logout has been      *)
(* given is redirected to '/'.  The session set is at every moment the     *)
(* issued tokens less the logged-out ones.                                 *)
(***************************************************************************)
C15_AdminSessions ==
    [][/\ (request'.endpoint = "/admin" /\ response'.status = 200) =>
            /\ request'.cookie \in issued
            /\ request'.cookie \notin logged_out
       /\ (request'.endpoint = "/admin" /\ request'.cookie \in logged_out) =>
            response' = [status |-> 303, text |-> "redirect", url |-> "/"]
       /\ (request'.endpoint = "/admin/login"
             /\ request'.password # "monotream") =>
            /\ admin_sessions' = admin_sessions
            /\ response'.status = 401
       /\ admin_sessions' = issued' \ logged_out']_vars

(* The admin page is served to the holder of the second token after the     *)
(* first one was logged out.                                                *)
C15_Witness ==
    /\ request.endpoint = "/admin"
    /\ response.text = "admin.html"
    /\ request.cookie \in admin_sessions
    /\ logged_out \cap issued # {}
    /\ "forged" \in logged_out
====
